---- MODULE Spec2Model ----
(***************************************************************************)
(* Virtual on-screen controls (virtual_controls.c): a fixed set of buttons *)
(* in normalized window coordinates; finger and mouse events flip the      *)
(* buttons' pressed flags and push synthetic key events to the SDL queue.  *)
(*                                                                         *)
(* Coordinates.  The C code works on floats.  The model keeps a normalized *)
(* coordinate as an exact fraction <<n, d>> (value n/d, d > 0).  A button  *)
(* field is kept in hundredths (0.05f is 5), a finger coordinate is        *)
(* <<n, 100>>, a mouse coordinate is <<pixel, window size>>, as the        *)
(* division of VirtualControls_HandleMouseEvent leaves it.                 *)
(*                                                                         *)
(* Renderer.  VirtualControls_Draw and VirtualControls_Shutdown work on    *)
(* the handles vc_prog and vc_vbo and on the GL context; of the context    *)
(* the model keeps the depth test, the depth mask, the blend enable, the   *)
(* blend function and whether the program behind vc_prog is linked.        *)
(***************************************************************************)
EXTENDS Integers, Sequences, FiniteSets, TLC

\* ---------------------------------------------------------------- constants

\* #define MAX_BUTTONS 16
MAX_BUTTONS == 16

\* Denominator of the button fields and of the finger coordinates.
Unit == 100

\* ------------------------------------------------------------------- bounds

\* Pointer events are delivered while the SDL queue holds fewer than MaxQueue
\* synthetic events that the host has not polled yet.
MaxQueue == 1

\* Where the history of the key events is kept, VirtualControls_Init is called
\* while at most MaxLost key-downs pushed so far lack their key-up.
MaxLost == 1

\* The fingers the touch device reports (SDL_FingerID). The handlers never
\* read the finger's identity.
Fingers == { 1, 2 }

\* Finger positions, in hundredths of the window: inside "left", the
\* bottom-right corner of "left" (x + w, y + h), the top-left corner of
\* "action" (x, y), inside "action", and one inside no button.
TouchPoints ==
    { <<10, 80>>, <<17, 93>>, <<80, 75>>, <<86, 81>>, <<50, 50>> }

\* Of these, the positions inside "left", inside "action" and inside no button.
InnerPoints == { <<10, 80>>, <<86, 81>>, <<50, 50>> }

\* Window sizes given to VirtualControls_Init and VirtualControls_OnWindowResized.
WinSizes == { <<800, 600>>, <<400, 300>> }

\* Mouse positions in pixels: (80, 480) is inside "left" at 800x600 and
\* inside no button at 400x300; (40, 240) is inside "left" at 400x300;
\* (340, 240) is inside "action" at 400x300 and inside no button at 800x600.
MousePoints == { <<80, 480>>, <<40, 240>>, <<340, 240>> }

\* The hit test is probed at every position i/100, j/100 of a finger and at
\* every pixel 4i, 3j of the mouse, i and j from 0 to GridMax.
GridMax == 100
Grid == { <<i, j>> : i \in 0 .. GridMax, j \in 0 .. GridMax }
MouseGrid == { <<4 * i, 3 * j>> : i \in 0 .. GridMax, j \in 0 .. GridMax }

\* Rectangles and keys handed to vc_add_button by the registration driver.
RegButtons == { <<5, 75, 12, 18, "SDLK_LEFT">>, <<80, 75, 15, 18, "SDLK_RETURN">> }

\* A finger that does not touch the screen.
NoTouch == <<-1, -1>>

\* ------------------------------------------------------------------- state

VARIABLES
    buttons,        \* static VC_Button buttons[MAX_BUTTONS], its registered part
    button_count,   \* static int button_count
    window_w,       \* static int window_w
    window_h,       \* static int window_h
    vc_prog,        \* static GLuint vc_prog: 0, or the name of a program object
    vc_vbo,         \* static GLuint vc_vbo: 0, or the name of a buffer object
    gl,             \* the GL context: the pipeline state the renderer touches
    queue,          \* the SDL event queue: events pushed by SDL_PushEvent, not yet polled
    fingers,        \* the touch device: where each finger touches, or NoTouch
    recording,      \* whether the history of the key events is kept
    unmatched,      \* the history: per key, key-downs pushed so far minus key-ups pushed so far
    last            \* the last call: its operation, arguments, state before it, events it pushed

vars == <<buttons, button_count, window_w, window_h, vc_prog, vc_vbo, gl,
          queue, fingers, recording, unmatched, last>>

\* The renderer's part of the state, and the history of the key events.
renderer == <<vc_prog, vc_vbo, gl>>
history == <<recording, unmatched>>

\* The array is kept as its registered part, buttons[0 .. button_count-1]:
\* no code reads an entry at or beyond button_count, and vc_add_button writes
\* every field of an entry when it registers it.  After
\* memset(buttons, 0, sizeof(buttons)) with button_count = 0 no entry is
\* registered.
ZeroButtons == [i \in {} |-> 0]

\* ------------------------------------------------------------ registration

\* vc_add_button with the capacity test off by one (> for >=).
vc_add_button_OffByOne(st, x, y, w, h, key) ==
    IF st.button_count > MAX_BUTTONS
    THEN [buttons |-> st.buttons, button_count |-> st.button_count, ret |-> -1]
    ELSE [buttons |-> [i \in 0 .. st.button_count |->
                          IF i = st.button_count
                          THEN [x |-> x, y |-> y, w |-> w, h |-> h, key |-> key,
                                id |-> st.button_count, pressed |-> 0]
                          ELSE st.buttons[i]],
          button_count |-> st.button_count + 1,
          ret |-> st.button_count]

\* static int vc_add_button(x, y, w, h, key) on the store st = [buttons, button_count]:
\* the store after the call and the value returned.
vc_add_button(st, x, y, w, h, key) ==
    IF st.button_count >= MAX_BUTTONS
    THEN [buttons |-> st.buttons, button_count |-> st.button_count, ret |-> -1]
    ELSE [buttons |-> [i \in 0 .. st.button_count |->
                          IF i = st.button_count
                          THEN [x |-> x, y |-> y, w |-> w, h |-> h, key |-> key,
                                id |-> st.button_count, pressed |-> 0]
                          ELSE st.buttons[i]],
          button_count |-> st.button_count + 1,
          ret |-> st.button_count]

\* Layout with "up" 0.02 lower, its bottom edge on the top edge of "down".
Layout_Touching ==
    << <<5, 75, 12, 18, "SDLK_LEFT">>,
       <<22, 75, 12, 18, "SDLK_DOWN">>,
       <<22, 57, 12, 18, "SDLK_UP">>,
       <<39, 75, 12, 18, "SDLK_RIGHT">>,
       <<80, 75, 15, 18, "SDLK_RETURN">> >>

\* The five vc_add_button calls of VirtualControls_Init, in order.
Layout ==
    << <<5, 75, 12, 18, "SDLK_LEFT">>,
       <<22, 75, 12, 18, "SDLK_DOWN">>,
       <<22, 55, 12, 18, "SDLK_UP">>,
       <<39, 75, 12, 18, "SDLK_RIGHT">>,
       <<80, 75, 15, 18, "SDLK_RETURN">> >>

RECURSIVE AddLayout(_, _)
AddLayout(st, k) ==
    IF k > Len(Layout) THEN st
    ELSE LET r == vc_add_button(st, Layout[k][1], Layout[k][2], Layout[k][3],
                                Layout[k][4], Layout[k][5])
         IN  AddLayout([buttons |-> r.buttons, button_count |-> r.button_count], k + 1)

\* --------------------------------------------------------------- hit test

\* point_in_button with the upper bounds exclusive (< for <=).
point_in_button_HalfOpen(b, px, py) ==
    /\ px[1] * Unit >= b.x * px[2]
    /\ px[1] * Unit < (b.x + b.w) * px[2]
    /\ py[1] * Unit >= b.y * py[2]
    /\ py[1] * Unit < (b.y + b.h) * py[2]

\* static int point_in_button(b, px_norm, py_norm); px, py are fractions <<n, d>>.
\* px >= b->x is n/d >= x/Unit, that is n * Unit >= x * d.
point_in_button(b, px, py) ==
    /\ px[1] * Unit >= b.x * px[2]
    /\ px[1] * Unit <= (b.x + b.w) * px[2]
    /\ py[1] * Unit >= b.y * py[2]
    /\ py[1] * Unit <= (b.y + b.h) * py[2]

\* synthesize_key that ignores is_down and always builds a key-down.
synthesize_key_AlwaysDown(key, is_down) ==
    [type |-> "SDL_KEYDOWN", state |-> "SDL_PRESSED", sym |-> key]

\* static void synthesize_key(key, is_down): the event handed to SDL_PushEvent.
synthesize_key(key, is_down) ==
    [type  |-> IF is_down = 1 THEN "SDL_KEYDOWN" ELSE "SDL_KEYUP",
     state |-> IF is_down = 1 THEN "SDL_PRESSED" ELSE "SDL_RELEASED",
     sym   |-> key]

\* ---------------------------------------------------------------- renderer

\* The pipeline state of a new GL context (glIsEnabled(GL_DEPTH_TEST) and
\* glIsEnabled(GL_BLEND) false, depth writes on, blend function ONE, ZERO),
\* with no linked program behind vc_prog.
DefaultGL ==
    [depth_test |-> FALSE, depth_mask |-> TRUE, blend |-> FALSE,
     blend_func |-> <<"GL_ONE", "GL_ZERO">>, linked |-> FALSE]

\* The blend functions the host sets.
BlendFuncs ==
    { <<"GL_ONE", "GL_ZERO">>, <<"GL_SRC_ALPHA", "GL_ONE_MINUS_SRC_ALPHA">> }

\* The object names glCreateProgram and glGenBuffers hand out in a current
\* GL context: names other than zero.
ProgramName == 1
BufferName == 1

\* What the GL driver makes of vc_create_shader: the program links; a shader
\* fails to compile (glGetShaderiv gives ok = 0, and the program then fails
\* to link); the program fails to link (glGetProgramiv gives ok = 0).
CreateOutcomes == { "linked", "compile_failed", "link_failed" }

\* The GL calls of vc_create_shader, in order.
CreateCalls ==
    << "glCreateShader", "glShaderSource", "glCompileShader", "glGetShaderiv",
       "glCreateShader", "glShaderSource", "glCompileShader", "glGetShaderiv",
       "glCreateProgram", "glAttachShader", "glAttachShader",
       "glBindAttribLocation", "glBindAttribLocation", "glLinkProgram",
       "glGetProgramiv", "glDeleteShader", "glDeleteShader", "glGenBuffers" >>

\* static void vc_create_shader(void): the handles it stores and whether the
\* program behind vc_prog is linked.  A failure to compile or to link is only
\* logged (SDL_Log); vc_prog keeps what glCreateProgram returned.
vc_create_shader(outcome) ==
    [vc_prog |-> ProgramName,
     vc_vbo  |-> BufferName,
     linked  |-> outcome = "linked",
     create  |-> outcome,
     calls   |-> CreateCalls]

\* The GL calls of VirtualControls_Draw after the lazy creation, in order.
DrawCalls ==
    << "glIsEnabled", "glIsEnabled",
       "glDisable", "glDepthMask", "glEnable", "glBlendFunc",
       "glUseProgram", "glBindBuffer", "glBufferData",
       "glEnableVertexAttribArray", "glVertexAttribPointer",
       "glEnableVertexAttribArray", "glVertexAttribPointer",
       "glDrawArrays",
       "glDisableVertexAttribArray", "glDisableVertexAttribArray",
       "glBindBuffer", "glUseProgram",
       "glDisable", "glEnable", "glDepthMask" >>

\* The pipeline state VirtualControls_Draw leaves behind, from the state g it
\* finds: it saves the two enable flags, sets up its own state, draws, and
\* restores.
DrawPipeline(g) ==
    LET depthTestEnabled == g.depth_test
        blendEnabled     == g.blend
        drawing == [g EXCEPT !.depth_test = FALSE,
                             !.depth_mask = FALSE,
                             !.blend = TRUE,
                             !.blend_func = <<"GL_SRC_ALPHA", "GL_ONE_MINUS_SRC_ALPHA">>]
    IN  [drawing EXCEPT !.blend = IF ~blendEnabled THEN FALSE ELSE @,
                        !.depth_test = IF depthTestEnabled THEN TRUE ELSE @,
                        !.depth_mask = TRUE]

\* ----------------------------------------------------- key event history

\* The keys of the buttons.
Keys == { Layout[k][5] : k \in DOMAIN Layout }

\* The events of a given type for a given key among the events out.
Pushed(out, type, key) ==
    Cardinality({ k \in DOMAIN out : out[k].type = type /\ out[k].sym = key })

\* The per-key balance u after the events out were pushed: one more for a
\* key-down, one less for a key-up.
Tally(u, out) ==
    [key \in DOMAIN u |->
        u[key] + Pushed(out, "SDL_KEYDOWN", key) - Pushed(out, "SDL_KEYUP", key)]

\* The key-downs that lack their key-up, over all keys.
RECURSIVE SumOver(_, _)
SumOver(S, u) ==
    IF S = {} THEN 0
    ELSE LET key == CHOOSE e \in S : TRUE IN u[key] + SumOver(S \ {key}, u)

Total(u) == SumOver(DOMAIN u, u)

\* ------------------------------------------------------ the handlers' loops

\* The buttons 0 .. n-1 of bs that are pressed.
PressedSet(bs, n) == { i \in 0 .. n - 1 : bs[i].pressed # 0 }

\* PressLoop without the !buttons[i].pressed test.
RECURSIVE PressLoop_NoHeldTest(_, _, _, _, _, _)
PressLoop_NoHeldTest(i, n, bs, out, nx, ny) ==
    IF i >= n THEN [buttons |-> bs, out |-> out, at_push |-> << >>]
    ELSE IF point_in_button(bs[i], nx, ny)
         THEN [PressLoop_NoHeldTest(i + 1, n, [bs EXCEPT ![i].pressed = 1],
                                    Append(out, synthesize_key(bs[i].key, 1)), nx, ny)
               EXCEPT !.at_push = << PressedSet([bs EXCEPT ![i].pressed = 1], n) >> \o @]
         ELSE PressLoop_NoHeldTest(i + 1, n, bs, out, nx, ny)

\* The loop of case SDL_FINGERDOWN (and of mb->state == SDL_PRESSED), from
\* index i on: the buttons after it and the events pushed, in order.
RECURSIVE PressLoop(_, _, _, _, _, _)
PressLoop(i, n, bs, out, nx, ny) ==
    IF i >= n THEN [buttons |-> bs, out |-> out, at_push |-> << >>]
    ELSE IF bs[i].pressed = 0 /\ point_in_button(bs[i], nx, ny)
         THEN [PressLoop(i + 1, n, [bs EXCEPT ![i].pressed = 1],
                         Append(out, synthesize_key(bs[i].key, 1)), nx, ny)
               EXCEPT !.at_push = << PressedSet([bs EXCEPT ![i].pressed = 1], n) >> \o @]
         ELSE PressLoop(i + 1, n, bs, out, nx, ny)

\* ReleaseInsideLoop without the point_in_button test.
RECURSIVE ReleaseInsideLoop_NoHitTest(_, _, _, _, _, _)
ReleaseInsideLoop_NoHitTest(i, n, bs, out, nx, ny) ==
    IF i >= n THEN [buttons |-> bs, out |-> out, at_push |-> << >>]
    ELSE IF bs[i].pressed # 0
         THEN [ReleaseInsideLoop_NoHitTest(i + 1, n, [bs EXCEPT ![i].pressed = 0],
                                           Append(out, synthesize_key(bs[i].key, 0)), nx, ny)
               EXCEPT !.at_push = << PressedSet([bs EXCEPT ![i].pressed = 0], n) >> \o @]
         ELSE ReleaseInsideLoop_NoHitTest(i + 1, n, bs, out, nx, ny)

\* ReleaseInsideLoop that clears the flag and pushes no key-up.
RECURSIVE ReleaseInsideLoop_Silent(_, _, _, _, _, _)
ReleaseInsideLoop_Silent(i, n, bs, out, nx, ny) ==
    IF i >= n THEN [buttons |-> bs, out |-> out, at_push |-> << >>]
    ELSE IF bs[i].pressed # 0 /\ point_in_button(bs[i], nx, ny)
         THEN ReleaseInsideLoop_Silent(i + 1, n, [bs EXCEPT ![i].pressed = 0], out, nx, ny)
         ELSE ReleaseInsideLoop_Silent(i + 1, n, bs, out, nx, ny)

\* The loop of case SDL_FINGERUP.
RECURSIVE ReleaseInsideLoop(_, _, _, _, _, _)
ReleaseInsideLoop(i, n, bs, out, nx, ny) ==
    IF i >= n THEN [buttons |-> bs, out |-> out, at_push |-> << >>]
    ELSE IF bs[i].pressed # 0 /\ point_in_button(bs[i], nx, ny)
         THEN [ReleaseInsideLoop(i + 1, n, [bs EXCEPT ![i].pressed = 0],
                                 Append(out, synthesize_key(bs[i].key, 0)), nx, ny)
               EXCEPT !.at_push = << PressedSet([bs EXCEPT ![i].pressed = 0], n) >> \o @]
         ELSE ReleaseInsideLoop(i + 1, n, bs, out, nx, ny)

\* ReleaseOutsideLoop with the hit test not negated.
RECURSIVE ReleaseOutsideLoop_NoNot(_, _, _, _, _, _)
ReleaseOutsideLoop_NoNot(i, n, bs, out, nx, ny) ==
    IF i >= n THEN [buttons |-> bs, out |-> out, at_push |-> << >>]
    ELSE IF bs[i].pressed # 0 /\ point_in_button(bs[i], nx, ny)
         THEN [ReleaseOutsideLoop_NoNot(i + 1, n, [bs EXCEPT ![i].pressed = 0],
                                        Append(out, synthesize_key(bs[i].key, 0)), nx, ny)
               EXCEPT !.at_push = << PressedSet([bs EXCEPT ![i].pressed = 0], n) >> \o @]
         ELSE ReleaseOutsideLoop_NoNot(i + 1, n, bs, out, nx, ny)

\* ReleaseOutsideLoop that also presses a released button under the finger.
RECURSIVE ReleaseOutsideLoop_DragPress(_, _, _, _, _, _)
ReleaseOutsideLoop_DragPress(i, n, bs, out, nx, ny) ==
    IF i >= n THEN [buttons |-> bs, out |-> out, at_push |-> << >>]
    ELSE IF bs[i].pressed # 0 /\ ~point_in_button(bs[i], nx, ny)
         THEN [ReleaseOutsideLoop_DragPress(i + 1, n, [bs EXCEPT ![i].pressed = 0],
                                            Append(out, synthesize_key(bs[i].key, 0)), nx, ny)
               EXCEPT !.at_push = << PressedSet([bs EXCEPT ![i].pressed = 0], n) >> \o @]
         ELSE IF bs[i].pressed = 0 /\ point_in_button(bs[i], nx, ny)
         THEN [ReleaseOutsideLoop_DragPress(i + 1, n, [bs EXCEPT ![i].pressed = 1],
                                            Append(out, synthesize_key(bs[i].key, 1)), nx, ny)
               EXCEPT !.at_push = << PressedSet([bs EXCEPT ![i].pressed = 1], n) >> \o @]
         ELSE ReleaseOutsideLoop_DragPress(i + 1, n, bs, out, nx, ny)

\* The loop of case SDL_FINGERMOTION.
RECURSIVE ReleaseOutsideLoop(_, _, _, _, _, _)
ReleaseOutsideLoop(i, n, bs, out, nx, ny) ==
    IF i >= n THEN [buttons |-> bs, out |-> out, at_push |-> << >>]
    ELSE IF bs[i].pressed # 0 /\ ~point_in_button(bs[i], nx, ny)
         THEN [ReleaseOutsideLoop(i + 1, n, [bs EXCEPT ![i].pressed = 0],
                                  Append(out, synthesize_key(bs[i].key, 0)), nx, ny)
               EXCEPT !.at_push = << PressedSet([bs EXCEPT ![i].pressed = 0], n) >> \o @]
         ELSE ReleaseOutsideLoop(i + 1, n, bs, out, nx, ny)

\* The loop of mb->state == SDL_PRESSED in VirtualControls_HandleMouseEvent.
RECURSIVE MousePressLoop(_, _, _, _, _, _)
MousePressLoop(i, n, bs, out, nx, ny) ==
    IF i >= n THEN [buttons |-> bs, out |-> out, at_push |-> << >>]
    ELSE IF bs[i].pressed = 0 /\ point_in_button(bs[i], nx, ny)
         THEN [MousePressLoop(i + 1, n, [bs EXCEPT ![i].pressed = 1],
                              Append(out, synthesize_key(bs[i].key, 1)), nx, ny)
               EXCEPT !.at_push = << PressedSet([bs EXCEPT ![i].pressed = 1], n) >> \o @]
         ELSE MousePressLoop(i + 1, n, bs, out, nx, ny)

\* ReleaseAllLoop that stops after the first button it releases.
RECURSIVE ReleaseAllLoop_FirstOnly(_, _, _, _)
ReleaseAllLoop_FirstOnly(i, n, bs, out) ==
    IF i >= n THEN [buttons |-> bs, out |-> out, at_push |-> << >>]
    ELSE IF bs[i].pressed # 0
         THEN [buttons |-> [bs EXCEPT ![i].pressed = 0],
               out |-> Append(out, synthesize_key(bs[i].key, 0)),
               at_push |-> << PressedSet([bs EXCEPT ![i].pressed = 0], n) >>]
         ELSE ReleaseAllLoop_FirstOnly(i + 1, n, bs, out)

\* ReleaseAllLoop that pushes a button's key-up before it clears the flag.
RECURSIVE ReleaseAllLoop_PushFirst(_, _, _, _)
ReleaseAllLoop_PushFirst(i, n, bs, out) ==
    IF i >= n THEN [buttons |-> bs, out |-> out, at_push |-> << >>]
    ELSE IF bs[i].pressed # 0
         THEN [ReleaseAllLoop_PushFirst(i + 1, n, [bs EXCEPT ![i].pressed = 0],
                                        Append(out, synthesize_key(bs[i].key, 0)))
               EXCEPT !.at_push = << PressedSet(bs, n) >> \o @]
         ELSE ReleaseAllLoop_PushFirst(i + 1, n, bs, out)

\* The loop of mb->state == SDL_RELEASED.
RECURSIVE ReleaseAllLoop(_, _, _, _)
ReleaseAllLoop(i, n, bs, out) ==
    IF i >= n THEN [buttons |-> bs, out |-> out, at_push |-> << >>]
    ELSE IF bs[i].pressed # 0
         THEN [ReleaseAllLoop(i + 1, n, [bs EXCEPT ![i].pressed = 0],
                              Append(out, synthesize_key(bs[i].key, 0)))
               EXCEPT !.at_push = << PressedSet([bs EXCEPT ![i].pressed = 0], n) >> \o @]
         ELSE ReleaseAllLoop(i + 1, n, bs, out)

\* ------------------------------------------------------------------ actions

\* Whether a call op at (nx, ny) directly follows a FingerDown at the same
\* position that found every button released.
FollowsDown(op, nx, ny) ==
    /\ op = "FingerUp"
    /\ last.op = "FingerDown"
    /\ last.nx = nx /\ last.ny = ny
    /\ PressedSet(last.pre, last.pre_count) = {}

\* What a call that makes no GL call records of the renderer.
NoGfx == [create |-> "none", calls |-> << >>]

\* What `last` records of a call into the module: the operation, the finger
\* and the normalized position of the event, the buttons before the call, the events the call pushed, the value returned;
\* and, for a FingerUp that directly follows such a FingerDown, the events
\* that FingerDown pushed.  It also records the window size and the renderer's state before the
\* call; the pressed buttons at each SDL_PushEvent of the call (at_push) and
\* the GL calls made (gfx) are filled in by the handlers that have any.
Call(op, finger, nx, ny, emitted, ret) ==
    [op |-> op, finger |-> finger, nx |-> nx, ny |-> ny,
     pre |-> buttons, pre_count |-> button_count,
     emitted |-> emitted, ret |-> ret,
     after_down |-> FollowsDown(op, nx, ny),
     down_emitted |-> IF FollowsDown(op, nx, ny) THEN last.emitted ELSE << >>,
     pre_w |-> window_w, pre_h |-> window_h,
     pre_prog |-> vc_prog, pre_vbo |-> vc_vbo, pre_gl |-> gl,
     at_push |-> << >>, gfx |-> NoGfx]

\* `last` before any call.
NoCall ==
    [op |-> "start", finger |-> 0, nx |-> <<0, 1>>, ny |-> <<0, 1>>,
     pre |-> ZeroButtons, pre_count |-> 0,
     emitted |-> << >>, ret |-> 0, after_down |-> FALSE, down_emitted |-> << >>,
     pre_w |-> 800, pre_h |-> 600,
     pre_prog |-> 0, pre_vbo |-> 0, pre_gl |-> DefaultGL,
     at_push |-> << >>, gfx |-> NoGfx]

\* The program before any call: the static initializers, in a GL context
\* in its initial state.
Init ==
    /\ buttons = ZeroButtons
    /\ button_count = 0
    /\ window_w = 800
    /\ window_h = 600
    /\ vc_prog = 0
    /\ vc_vbo = 0
    /\ gl = DefaultGL
    /\ queue = << >>
    /\ fingers = [f \in Fingers |-> NoTouch]
    /\ unmatched = [key \in Keys |-> 0]
    /\ recording = FALSE
    /\ last = NoCall

\* VirtualControls_Init that keeps the buttons of an earlier call.
VirtualControls_Init_Once ==
    \E ws \in WinSizes :
        LET st == IF button_count > 0
                  THEN [buttons |-> buttons, button_count |-> button_count]
                  ELSE AddLayout([buttons |-> ZeroButtons, button_count |-> 0], 1)
        IN  /\ Total(unmatched) <= MaxLost
            /\ window_w' = ws[1]
            /\ window_h' = ws[2]
            /\ buttons' = st.buttons
            /\ button_count' = st.button_count
            /\ last' = Call("Init", 0, <<0, 1>>, <<0, 1>>, << >>, 0)
            /\ UNCHANGED <<queue, fingers>>
            /\ UNCHANGED history
            /\ UNCHANGED renderer

\* VirtualControls_Init that first releases the pressed buttons as a mouse
\* release does, pushing their key-ups.
VirtualControls_Init_Releasing ==
    \E ws \in WinSizes :
        LET r  == ReleaseAllLoop(0, button_count, buttons, << >>)
            st == AddLayout([buttons |-> ZeroButtons, button_count |-> 0], 1)
        IN  /\ Total(unmatched) <= MaxLost
            /\ window_w' = ws[1]
            /\ window_h' = ws[2]
            /\ buttons' = st.buttons
            /\ button_count' = st.button_count
            /\ queue' = queue \o r.out
            /\ unmatched' = IF recording THEN Tally(unmatched, r.out) ELSE unmatched
            /\ last' = Call("Init", 0, <<0, 1>>, <<0, 1>>, r.out, 0)
            /\ UNCHANGED <<fingers, recording>>
            /\ UNCHANGED renderer

\* int VirtualControls_Init(int win_w, int win_h)
VirtualControls_Init ==
    \E ws \in WinSizes :
        LET st == AddLayout([buttons |-> ZeroButtons, button_count |-> 0], 1)
        IN  /\ Total(unmatched) <= MaxLost
            /\ window_w' = ws[1]
            /\ window_h' = ws[2]
            /\ buttons' = st.buttons
            /\ button_count' = st.button_count
            /\ last' = Call("Init", 0, <<0, 1>>, <<0, 1>>, << >>, 0)
            /\ UNCHANGED <<queue, fingers>>
            /\ UNCHANGED history
            /\ UNCHANGED renderer

\* VirtualControls_OnWindowResized that lays the buttons out again, as
\* VirtualControls_Init does.
VirtualControls_OnWindowResized_Relayout ==
    \E ws \in WinSizes :
        LET st == AddLayout([buttons |-> ZeroButtons, button_count |-> 0], 1)
        IN  /\ window_w' = ws[1]
            /\ window_h' = ws[2]
            /\ buttons' = st.buttons
            /\ button_count' = st.button_count
            /\ last' = Call("Resize", 0, <<0, 1>>, <<0, 1>>, << >>, 0)
            /\ UNCHANGED <<queue, fingers>>
            /\ UNCHANGED renderer
            /\ UNCHANGED history

\* void VirtualControls_OnWindowResized(int new_w, int new_h)
VirtualControls_OnWindowResized ==
    \E ws \in WinSizes :
        /\ window_w' = ws[1]
        /\ window_h' = ws[2]
        /\ last' = Call("Resize", 0, <<0, 1>>, <<0, 1>>, << >>, 0)
        /\ UNCHANGED <<buttons, button_count, queue, fingers>>
        /\ UNCHANGED renderer
        /\ UNCHANGED history

\* VirtualControls_HandleFingerEvent, tf->type == SDL_FINGERDOWN: finger f
\* touches the screen at p (in hundredths of the window).
FingerDownAt(f, p) ==
    LET nx == <<p[1], Unit>>
        ny == <<p[2], Unit>>
        r  == PressLoop(0, button_count, buttons, << >>, nx, ny)
    IN  /\ Len(queue) < MaxQueue
        /\ fingers[f] = NoTouch
        /\ fingers' = [fingers EXCEPT ![f] = p]
        /\ buttons' = r.buttons
        /\ queue' = queue \o r.out
        /\ unmatched' = IF recording THEN Tally(unmatched, r.out) ELSE unmatched
        /\ last' = [Call("FingerDown", f, nx, ny, r.out, 0) EXCEPT !.at_push = r.at_push]
        /\ UNCHANGED <<button_count, window_w, window_h, recording>>
        /\ UNCHANGED renderer

FingerDown == \E f \in Fingers, p \in TouchPoints : FingerDownAt(f, p)

\* VirtualControls_HandleFingerEvent, tf->type == SDL_FINGERUP: finger f is
\* lifted at p.
FingerUpAt(f, p) ==
    LET nx == <<p[1], Unit>>
        ny == <<p[2], Unit>>
        r  == ReleaseInsideLoop(0, button_count, buttons, << >>, nx, ny)
    IN  /\ Len(queue) < MaxQueue
        /\ fingers[f] # NoTouch
        /\ fingers' = [fingers EXCEPT ![f] = NoTouch]
        /\ buttons' = r.buttons
        /\ queue' = queue \o r.out
        /\ unmatched' = IF recording THEN Tally(unmatched, r.out) ELSE unmatched
        /\ last' = [Call("FingerUp", f, nx, ny, r.out, 0) EXCEPT !.at_push = r.at_push]
        /\ UNCHANGED <<button_count, window_w, window_h, recording>>
        /\ UNCHANGED renderer

FingerUp == \E f \in Fingers, p \in TouchPoints : FingerUpAt(f, p)

\* VirtualControls_HandleFingerEvent, tf->type == SDL_FINGERMOTION: finger f
\* moves to p.
FingerMotionAt(f, p) ==
    LET nx == <<p[1], Unit>>
        ny == <<p[2], Unit>>
        r  == ReleaseOutsideLoop(0, button_count, buttons, << >>, nx, ny)
    IN  /\ Len(queue) < MaxQueue
        /\ fingers[f] # NoTouch
        /\ fingers' = [fingers EXCEPT ![f] = p]
        /\ buttons' = r.buttons
        /\ queue' = queue \o r.out
        /\ unmatched' = IF recording THEN Tally(unmatched, r.out) ELSE unmatched
        /\ last' = [Call("FingerMotion", f, nx, ny, r.out, 0) EXCEPT !.at_push = r.at_push]
        /\ UNCHANGED <<button_count, window_w, window_h, recording>>
        /\ UNCHANGED renderer

FingerMotion == \E f \in Fingers, p \in TouchPoints : FingerMotionAt(f, p)

\* MouseDown that normalizes with the window size of the static initializers.
MouseDown_InitialSize ==
    \E p \in MousePoints :
        LET nx == <<p[1], 800>>
            ny == <<p[2], 600>>
            r  == MousePressLoop(0, button_count, buttons, << >>, nx, ny)
        IN  /\ Len(queue) < MaxQueue
            /\ buttons' = r.buttons
            /\ queue' = queue \o r.out
            /\ unmatched' = IF recording THEN Tally(unmatched, r.out) ELSE unmatched
            /\ last' = [Call("MouseDown", 0, nx, ny, r.out, 0) EXCEPT !.at_push = r.at_push]
            /\ UNCHANGED <<button_count, window_w, window_h, fingers, recording>>
            /\ UNCHANGED renderer

\* VirtualControls_HandleMouseEvent, mb->state == SDL_PRESSED, at pixel p
MouseDownAt(p) ==
    LET nx == <<p[1], window_w>>
        ny == <<p[2], window_h>>
        r  == MousePressLoop(0, button_count, buttons, << >>, nx, ny)
    IN  /\ Len(queue) < MaxQueue
        /\ buttons' = r.buttons
        /\ queue' = queue \o r.out
        /\ unmatched' = IF recording THEN Tally(unmatched, r.out) ELSE unmatched
        /\ last' = [Call("MouseDown", 0, nx, ny, r.out, 0) EXCEPT !.at_push = r.at_push]
        /\ UNCHANGED <<button_count, window_w, window_h, fingers, recording>>
        /\ UNCHANGED renderer

MouseDown == \E p \in MousePoints : MouseDownAt(p)

\* VirtualControls_HandleMouseEvent, mb->state == SDL_RELEASED
MouseUp ==
    \E p \in MousePoints :
        LET nx == <<p[1], window_w>>
            ny == <<p[2], window_h>>
            r  == ReleaseAllLoop(0, button_count, buttons, << >>)
        IN  /\ Len(queue) < MaxQueue
            /\ buttons' = r.buttons
            /\ queue' = queue \o r.out
            /\ unmatched' = IF recording THEN Tally(unmatched, r.out) ELSE unmatched
            /\ last' = [Call("MouseUp", 0, nx, ny, r.out, 0) EXCEPT !.at_push = r.at_push]
            /\ UNCHANGED <<button_count, window_w, window_h, fingers, recording>>
            /\ UNCHANGED renderer

\* The host takes the oldest event off the SDL queue (SDL_PollEvent).
HostPoll ==
    /\ queue # << >>
    /\ queue' = Tail(queue)
    /\ UNCHANGED <<buttons, button_count, window_w, window_h, fingers, last>>
    /\ UNCHANGED renderer
    /\ UNCHANGED history

\* VirtualControls_Draw without the early return on button_count == 0.
VirtualControls_Draw_NoCountTest ==
    \E outcome \in CreateOutcomes :
        LET c == vc_create_shader(outcome)
        IN  /\ IF vc_prog = 0
               THEN /\ vc_prog' = c.vc_prog
                    /\ vc_vbo' = c.vc_vbo
                    /\ gl' = DrawPipeline([gl EXCEPT !.linked = c.linked])
                    /\ last' = [Call("Draw", 0, <<0, 1>>, <<0, 1>>, << >>, 0)
                                EXCEPT !.gfx = [create |-> c.create,
                                                calls |-> c.calls \o DrawCalls]]
               ELSE /\ gl' = DrawPipeline(gl)
                    /\ last' = [Call("Draw", 0, <<0, 1>>, <<0, 1>>, << >>, 0)
                                EXCEPT !.gfx = [create |-> "none", calls |-> DrawCalls]]
                    /\ UNCHANGED <<vc_prog, vc_vbo>>
            /\ UNCHANGED <<buttons, button_count, window_w, window_h, queue, fingers>>
            /\ UNCHANGED history

\* void VirtualControls_Draw(void)
VirtualControls_Draw ==
    \E outcome \in CreateOutcomes :
        LET c == vc_create_shader(outcome)
        IN  /\ IF button_count = 0
               THEN /\ UNCHANGED renderer
                    /\ last' = Call("Draw", 0, <<0, 1>>, <<0, 1>>, << >>, 0)
               ELSE IF vc_prog = 0
               THEN /\ vc_prog' = c.vc_prog
                    /\ vc_vbo' = c.vc_vbo
                    /\ gl' = DrawPipeline([gl EXCEPT !.linked = c.linked])
                    /\ last' = [Call("Draw", 0, <<0, 1>>, <<0, 1>>, << >>, 0)
                                EXCEPT !.gfx = [create |-> c.create,
                                                calls |-> c.calls \o DrawCalls]]
               ELSE /\ gl' = DrawPipeline(gl)
                    /\ last' = [Call("Draw", 0, <<0, 1>>, <<0, 1>>, << >>, 0)
                                EXCEPT !.gfx = [create |-> "none", calls |-> DrawCalls]]
                    /\ UNCHANGED <<vc_prog, vc_vbo>>
            /\ UNCHANGED <<buttons, button_count, window_w, window_h, queue, fingers>>
            /\ UNCHANGED history

\* VirtualControls_Shutdown that deletes the objects and keeps their names.
VirtualControls_Shutdown_KeepNames ==
    /\ gl' = IF vc_prog # 0 THEN [gl EXCEPT !.linked = FALSE] ELSE gl
    /\ last' = [Call("Shutdown", 0, <<0, 1>>, <<0, 1>>, << >>, 0)
                EXCEPT !.gfx = [create |-> "none",
                                calls |-> (IF vc_vbo # 0 THEN << "glDeleteBuffers" >> ELSE << >>)
                                          \o (IF vc_prog # 0 THEN << "glDeleteProgram" >> ELSE << >>)]]
    /\ UNCHANGED <<vc_prog, vc_vbo>>
    /\ UNCHANGED <<buttons, button_count, window_w, window_h, queue, fingers>>
    /\ UNCHANGED history

\* void VirtualControls_Shutdown(void)
VirtualControls_Shutdown ==
    /\ vc_vbo' = 0
    /\ vc_prog' = 0
    /\ gl' = IF vc_prog # 0 THEN [gl EXCEPT !.linked = FALSE] ELSE gl
    /\ last' = [Call("Shutdown", 0, <<0, 1>>, <<0, 1>>, << >>, 0)
                EXCEPT !.gfx = [create |-> "none",
                                calls |-> (IF vc_vbo # 0 THEN << "glDeleteBuffers" >> ELSE << >>)
                                          \o (IF vc_prog # 0 THEN << "glDeleteProgram" >> ELSE << >>)]]
    /\ UNCHANGED <<buttons, button_count, window_w, window_h, queue, fingers>>
    /\ UNCHANGED history

\* The host's own rendering sets the pipeline state between two calls.
HostGL ==
    \E dt \in BOOLEAN, dm \in BOOLEAN, bl \in BOOLEAN, bf \in BlendFuncs :
        /\ gl' = [gl EXCEPT !.depth_test = dt, !.depth_mask = dm,
                            !.blend = bl, !.blend_func = bf]
        /\ gl' # gl
        /\ last' = [NoCall EXCEPT !.op = "HostGL"]
        /\ UNCHANGED <<buttons, button_count, window_w, window_h, vc_prog, vc_vbo,
                       queue, fingers>>
        /\ UNCHANGED history

Next ==
    \/ VirtualControls_Init
    \/ VirtualControls_OnWindowResized
    \/ FingerDown
    \/ FingerUp
    \/ FingerMotion
    \/ MouseDown
    \/ MouseUp
    \/ HostPoll

Spec == Init /\ [][Next]_vars

\* The state of Init with the history of the key events kept from then on.
InitRecording ==
    /\ buttons = ZeroButtons
    /\ button_count = 0
    /\ window_w = 800
    /\ window_h = 600
    /\ vc_prog = 0
    /\ vc_vbo = 0
    /\ gl = DefaultGL
    /\ queue = << >>
    /\ fingers = [f \in Fingers |-> NoTouch]
    /\ recording = TRUE
    /\ unmatched = [key \in Keys |-> 0]
    /\ last = NoCall

\* Every operation of the module, with the renderer's.
NextAll ==
    \/ Next
    \/ VirtualControls_Draw
    \/ VirtualControls_Shutdown

SpecAll == Init /\ [][NextAll]_vars

\* The finger events at the positions inside a button and inside none.
InnerFingerDown == \E f \in Fingers, p \in InnerPoints : FingerDownAt(f, p)
InnerFingerUp == \E f \in Fingers, p \in InnerPoints : FingerUpAt(f, p)
InnerFingerMotion == \E f \in Fingers, p \in InnerPoints : FingerMotionAt(f, p)

\* The pointer events, VirtualControls_Init and the resize, with the history
\* of the key events kept.
NextKeys ==
    \/ VirtualControls_Init
    \/ VirtualControls_OnWindowResized
    \/ InnerFingerDown
    \/ InnerFingerUp
    \/ InnerFingerMotion
    \/ MouseDown
    \/ MouseUp
    \/ HostPoll

SpecKeys == InitRecording /\ [][NextKeys]_vars

\* VirtualControls_Init called on the module that was never initialised.
FirstInit ==
    /\ button_count = 0
    /\ VirtualControls_Init

\* Every operation of the module after a single VirtualControls_Init, with
\* the history of the key events kept.
NextSingle ==
    \/ FirstInit
    \/ VirtualControls_OnWindowResized
    \/ FingerDown
    \/ FingerUp
    \/ FingerMotion
    \/ MouseDown
    \/ MouseUp
    \/ HostPoll
    \/ VirtualControls_Draw
    \/ VirtualControls_Shutdown

SpecSingle == InitRecording /\ [][NextSingle]_vars

\* The hit test probed over the window: one finger-down or one mouse press
\* right after VirtualControls_Init, every button released.
ProbeFinger ==
    /\ last.op = "Init"
    /\ \E p \in Grid : FingerDownAt(1, p)

ProbeMouse ==
    /\ last.op = "Init"
    /\ \E p \in MouseGrid : MouseDownAt(p)

NextHit ==
    \/ FirstInit
    \/ ProbeFinger
    \/ ProbeMouse

SpecHit == Init /\ [][NextHit]_vars

\* The renderer in a host that draws its own frames.
NextDraw ==
    \/ VirtualControls_Init
    \/ VirtualControls_OnWindowResized
    \/ VirtualControls_Draw
    \/ VirtualControls_Shutdown
    \/ HostGL

SpecDraw == Init /\ [][NextDraw]_vars

\* ------------------------------------------------- the registration driver

\* One more vc_add_button call after those of VirtualControls_Init (the
\* function is static: it runs only after the reset of VirtualControls_Init),
\* with any of RegButtons.
RegisterButton ==
    \E b \in RegButtons :
        LET r == vc_add_button([buttons |-> buttons, button_count |-> button_count],
                               b[1], b[2], b[3], b[4], b[5])
        IN  /\ last.op \in {"Init", "vc_add_button"}
            /\ buttons' = r.buttons
            /\ button_count' = r.button_count
            /\ last' = Call("vc_add_button", 0, <<0, 1>>, <<0, 1>>, << >>, r.ret)
            /\ UNCHANGED <<window_w, window_h, queue, fingers>>
            /\ UNCHANGED renderer
            /\ UNCHANGED history

\* The registration path alone: VirtualControls_Init and further
\* vc_add_button calls, up to and beyond MAX_BUTTONS.
NextReg ==
    \/ VirtualControls_Init
    \/ RegisterButton

SpecReg == Init /\ [][NextReg]_vars

\* ------------------------------------------------------------ the properties

\* The key events a host expects for a button's key.
KeyDown(key) == [type |-> "SDL_KEYDOWN", state |-> "SDL_PRESSED", sym |-> key]
KeyUp(key) == [type |-> "SDL_KEYUP", state |-> "SDL_RELEASED", sym |-> key]

\* How often event e occurs in the sequence out.
Count(out, e) == Cardinality({ k \in 1 .. Len(out) : out[k] = e })

\* The events of out that carry the key.
ForKey(out, key) == { k \in 1 .. Len(out) : out[k].sym = key }

\* The buttons registered before the last call, and those of them whose
\* rectangle the hit test finds the last call's position in.
Before == 0 .. last.pre_count - 1
HitBefore == { i \in Before : point_in_button(last.pre[i], last.nx, last.ny) }

\* C1: a finger-down at a position inside exactly one button's rectangle, the
\* button released, pushes exactly one key-down, the one of that button's key,
\* and sets that button pressed and nothing else; with the button already
\* pressed it pushes nothing and changes no button.
C1_DownPressesOnce ==
    last.op = "FingerDown" =>
        /\ button_count = last.pre_count
        /\ \A i \in Before :
              HitBefore = {i} =>
                 IF last.pre[i].pressed = 0
                 THEN /\ last.emitted = << KeyDown(last.pre[i].key) >>
                      /\ buttons = [last.pre EXCEPT ![i].pressed = 1]
                 ELSE /\ last.emitted = << >>
                      /\ buttons = last.pre

\* C1 happens: a finger-down inside the released "left" button pressed it.
C1_Witness ==
    /\ last.op = "FingerDown"
    /\ HitBefore = {0}
    /\ last.pre[0].pressed = 0
    /\ buttons[0].pressed = 1
    /\ last.emitted = << KeyDown("SDLK_LEFT") >>

\* C2: a finger-motion to a position outside a pressed button's rectangle
\* pushes exactly one key-up for that button and releases it; a finger-motion
\* to a position inside a pressed button's rectangle leaves it pressed and
\* pushes nothing for its key.
C2_MotionOffReleases ==
    last.op = "FingerMotion" =>
        \A i \in Before :
            last.pre[i].pressed # 0 =>
                IF i \in HitBefore
                THEN /\ buttons[i] = last.pre[i]
                     /\ ForKey(last.emitted, last.pre[i].key) = {}
                ELSE /\ buttons[i] = [last.pre[i] EXCEPT !.pressed = 0]
                     /\ Count(last.emitted, KeyUp(last.pre[i].key)) = 1
                     /\ Cardinality(ForKey(last.emitted, last.pre[i].key)) = 1

\* C2 happens: a finger-motion left the pressed "left" button and released
\* it, while the pressed "action" button, under the new position, stayed pressed.
C2_Witness ==
    /\ last.op = "FingerMotion"
    /\ PressedSet(last.pre, last.pre_count) = {0, 4}
    /\ HitBefore = {4}
    /\ buttons[0].pressed = 0
    /\ buttons[4].pressed # 0
    /\ last.emitted = << KeyUp("SDLK_LEFT") >>

\* C3: a mouse release at any pixel position leaves every button released and
\* pushes exactly one key-up for each button pressed before it, none for the
\* others, and nothing else.
C3_MouseUpReleasesAll ==
    last.op = "MouseUp" =>
        /\ button_count = last.pre_count
        /\ \A i \in Before :
              /\ buttons[i] = [last.pre[i] EXCEPT !.pressed = 0]
              /\ Count(last.emitted, KeyUp(last.pre[i].key))
                    = IF last.pre[i].pressed # 0 THEN 1 ELSE 0
              /\ Count(last.emitted, KeyDown(last.pre[i].key)) = 0
        /\ Len(last.emitted) = Cardinality(PressedSet(last.pre, last.pre_count))

\* C3 happens: a mouse release at a position outside every button released
\* "left" and "action", both pressed, "left" with a finger still on it.
C3_Witness ==
    /\ last.op = "MouseUp"
    /\ HitBefore = {}
    /\ PressedSet(last.pre, last.pre_count) = {0, 4}
    /\ \E f \in Fingers : fingers[f] = <<10, 80>>
    /\ PressedSet(buttons, button_count) = {}
    /\ last.emitted = << KeyUp("SDLK_LEFT"), KeyUp("SDLK_RETURN") >>

\* C4: a finger-down that finds every button released, directly followed by a
\* finger-up at the same position, inside a button: the down pushed exactly
\* the key-down of that button's key, the up pushed exactly its key-up, and
\* the buttons are again as they were before the down, all released.
C4_RoundTrip ==
    (last.op = "FingerUp" /\ last.after_down) =>
        \A i \in HitBefore :
            /\ last.down_emitted = << KeyDown(last.pre[i].key) >>
            /\ last.emitted = << KeyUp(last.pre[i].key) >>
            /\ buttons = [last.pre EXCEPT ![i].pressed = 0]
            /\ PressedSet(buttons, button_count) = {}

\* C4 happens: down and up inside "left".
C4_Witness ==
    /\ last.op = "FingerUp"
    /\ last.after_down
    /\ HitBefore = {0}
    /\ last.nx = <<10, Unit>> /\ last.ny = <<80, Unit>>
    /\ last.down_emitted = << KeyDown("SDLK_LEFT") >>
    /\ last.emitted = << KeyUp("SDLK_LEFT") >>

\* C5: a finger-up releases, with one key-up each, exactly the pressed
\* buttons whose rectangle contains its position; every other button, pressed
\* or released, is unchanged and gets no event.
C5_FingerUpScoped ==
    last.op = "FingerUp" =>
        /\ button_count = last.pre_count
        /\ \A i \in Before :
              IF last.pre[i].pressed # 0 /\ i \in HitBefore
              THEN /\ buttons[i] = [last.pre[i] EXCEPT !.pressed = 0]
                   /\ Count(last.emitted, KeyUp(last.pre[i].key)) = 1
                   /\ Cardinality(ForKey(last.emitted, last.pre[i].key)) = 1
              ELSE /\ buttons[i] = last.pre[i]
                   /\ ForKey(last.emitted, last.pre[i].key) = {}

\* C5 happens: with "left" and "action" pressed, a finger-up inside "action"
\* released "action" and left "left" pressed.
C5_Witness ==
    /\ last.op = "FingerUp"
    /\ PressedSet(last.pre, last.pre_count) = {0, 4}
    /\ HitBefore = {4}
    /\ PressedSet(buttons, button_count) = {0}
    /\ last.emitted = << KeyUp("SDLK_RETURN") >>

\* Button b's rectangle with both upper bounds excluded, [x, x+w) x [y, y+h),
\* and with them included, [x, x+w] x [y, y+h], for a position in hundredths.
InHalfOpenRect(b, px, py) ==
    b.x <= px /\ px < b.x + b.w /\ b.y <= py /\ py < b.y + b.h
InClosedRect(b, px, py) ==
    b.x <= px /\ px <= b.x + b.w /\ b.y <= py /\ py <= b.y + b.h

\* Whether a finger at p (hundredths, or NoTouch) is on button b: inside its
\* rectangle and off its right and bottom edges.
On(b, p) == p # NoTouch /\ InHalfOpenRect(b, p[1], p[2])

\* C6: with finger g on pressed button i, an event of another finger f on a
\* different button j (f goes down on j; or, j pressed, f moves from a
\* position on j to another position on j, or is lifted from j at a position
\* on j) leaves button i pressed and pushes no key-up for it.
C6_OtherFingerKeepsHold ==
    [][ \A f \in Fingers, g \in Fingers :
        \A i \in 0 .. button_count - 1, j \in 0 .. button_count - 1 :
            ( /\ f # g /\ i # j
              /\ fingers'[f] # fingers[f]
              /\ last'.finger = f
              /\ last'.op \in {"FingerDown", "FingerMotion", "FingerUp"}
              /\ On(buttons[i], fingers[g])
              /\ buttons[i].pressed # 0
              /\ On(buttons[j], <<last'.nx[1], last'.ny[1]>>)
              /\ (last'.op # "FingerDown" =>
                     buttons[j].pressed # 0 /\ On(buttons[j], fingers[f])) )
            => /\ buttons'[i].pressed # 0
               /\ Count(last'.emitted, KeyUp(buttons[i].key)) = 0 ]_vars

\* C7 as stated: a finger-down presses a released button exactly when its
\* position lies in [x, x+w) x [y, y+h) of the button's rectangle; a
\* finger-down on the right or bottom edge presses nothing.
C7_HalfOpenContainment ==
    last.op = "FingerDown" =>
        \A i \in Before :
            last.pre[i].pressed = 0 =>
                (buttons[i].pressed # 0
                    <=> InHalfOpenRect(last.pre[i], last.nx[1], last.ny[1]))

\* C7 as amended: a finger-down presses a released button exactly when its
\* position lies in [x, x+w] x [y, y+h] of the button's rectangle, all four
\* edges included, and pushes its key-down exactly then.
C7_ClosedContainment ==
    last.op = "FingerDown" =>
        \A i \in Before :
            last.pre[i].pressed = 0 =>
                /\ buttons[i].pressed # 0
                      <=> InClosedRect(last.pre[i], last.nx[1], last.ny[1])
                /\ Count(last.emitted, KeyDown(last.pre[i].key)) = 1
                      <=> InClosedRect(last.pre[i], last.nx[1], last.ny[1])

\* C7 happens: a finger-down on the bottom-right corner (x + w, y + h) of the
\* released "left" button pressed it.
C7_Witness ==
    /\ last.op = "FingerDown"
    /\ last.pre_count > 0
    /\ last.nx[1] = last.pre[0].x + last.pre[0].w
    /\ last.ny[1] = last.pre[0].y + last.pre[0].h
    /\ last.pre[0].pressed = 0
    /\ buttons[0].pressed # 0
    /\ last.emitted = << KeyDown("SDLK_LEFT") >>

\* C8: right after VirtualControls_Init the five buttons of the layout are
\* registered and every one of them is released.
C8_InitReleasesAll ==
    last.op = "Init" =>
        /\ button_count = Len(Layout)
        /\ \A i \in 0 .. button_count - 1 : buttons[i].pressed = 0

\* C8 happens: VirtualControls_Init was called with buttons pressed.
C8_Witness ==
    /\ last.op = "Init"
    /\ PressedSet(last.pre, last.pre_count) = {0, 4}
    /\ PressedSet(buttons, button_count) = {}

\* C9: the button count stays within 0 .. MAX_BUTTONS, button i has id i, and
\* a vc_add_button call made with MAX_BUTTONS buttons registered returns -1
\* and leaves the count and every button as they were; a call made with
\* fewer returns the new button's index and adds one button.
C9_RegistrationBounded ==
    /\ button_count \in 0 .. MAX_BUTTONS
    /\ \A i \in 0 .. button_count - 1 : buttons[i].id = i
    /\ last.op = "vc_add_button" =>
          IF last.pre_count = MAX_BUTTONS
          THEN /\ last.ret = -1
               /\ button_count = MAX_BUTTONS
               /\ buttons = last.pre
          ELSE /\ last.ret = last.pre_count
               /\ button_count = last.pre_count + 1
               /\ \A i \in Before : buttons[i] = last.pre[i]

\* C9 happens: a vc_add_button call with MAX_BUTTONS buttons registered failed.
C9_Witness ==
    /\ last.op = "vc_add_button"
    /\ last.pre_count = MAX_BUTTONS
    /\ last.ret = -1
    /\ button_count = MAX_BUTTONS

\* C10: a finger-motion pushes no key-down and presses no button: the
\* pressed buttons after it are among those pressed before it.
C10_MotionNeverPresses ==
    last.op = "FingerMotion" =>
        /\ \A k \in 1 .. Len(last.emitted) : last.emitted[k].type = "SDL_KEYUP"
        /\ PressedSet(buttons, button_count) \subseteq PressedSet(last.pre, last.pre_count)

\* C10 happens: a finger moved onto the released "action" button, which
\* stayed released.
C10_Witness ==
    /\ last.op = "FingerMotion"
    /\ HitBefore = {4}
    /\ last.pre[4].pressed = 0
    /\ buttons[4].pressed = 0
    /\ last.emitted = << >>

\* ------------------------------------------------------------ the renderer

\* How often the GL call name occurs among the calls of the last call.
Calls(name) == Cardinality({ k \in DOMAIN last.gfx.calls : last.gfx.calls[k] = name })

\* C11: a draw (with a button registered) that finds vc_prog zero creates the
\* program and the vertex buffer, once each, and leaves both handles non-zero;
\* a draw that finds vc_prog non-zero creates nothing and keeps both handles;
\* a shutdown deletes the program exactly if vc_prog was non-zero and the
\* buffer exactly if vc_vbo was, and leaves both handles zero, so that a second
\* shutdown deletes nothing and the next draw creates both again; at all
\* times both handles are zero or both are non-zero.
C11_LazyLifecycle ==
    /\ (vc_prog = 0) <=> (vc_vbo = 0)
    /\ (last.op = "Draw" /\ last.pre_count > 0 /\ last.pre_prog = 0) =>
           /\ Calls("glCreateProgram") = 1
           /\ Calls("glGenBuffers") = 1
           /\ vc_prog # 0
           /\ vc_vbo # 0
    /\ (last.op = "Draw" /\ last.pre_prog # 0) =>
           /\ Calls("glCreateProgram") = 0
           /\ Calls("glGenBuffers") = 0
           /\ vc_prog = last.pre_prog
           /\ vc_vbo = last.pre_vbo
    /\ last.op = "Shutdown" =>
           /\ Calls("glDeleteProgram") = (IF last.pre_prog # 0 THEN 1 ELSE 0)
           /\ Calls("glDeleteBuffers") = (IF last.pre_vbo # 0 THEN 1 ELSE 0)
           /\ vc_prog = 0
           /\ vc_vbo = 0

\* C11 happens: a draw found the program and the buffer of an earlier draw and
\* reused them.
C11_Witness ==
    /\ last.op = "Draw"
    /\ last.pre_prog # 0
    /\ last.pre_vbo # 0
    /\ last.gfx.create = "none"
    /\ Calls("glDrawArrays") = 1
    /\ vc_prog = last.pre_prog

\* C12: a draw whose lazy creation fails to compile or to link leaves vc_prog
\* zero, and a draw that finds no linked program behind vc_prog (with a button
\* registered) attempts the creation again.
C12_FailedBuildRetried ==
    /\ (last.op = "Draw" /\ last.gfx.create \in { "compile_failed", "link_failed" }) =>
           vc_prog = 0
    /\ (last.op = "Draw" /\ last.pre_count > 0 /\ ~last.pre_gl.linked) =>
           last.gfx.create # "none"

\* The four pieces of pipeline state of C13, of a GL state g.
Pipeline(g) == <<g.depth_test, g.depth_mask, g.blend, g.blend_func>>

\* C13: after a draw the depth-test enable, the depth-write mask, the blend
\* enable and the blend function are what they were before the draw, whatever
\* the host had set.
C13_PipelineRestored ==
    last.op = "Draw" => Pipeline(gl) = Pipeline(last.pre_gl)

\* C15: a draw with no button registered makes no GL call, leaves vc_prog and
\* vc_vbo as they were (no program, no buffer created) and leaves the
\* pipeline state as it was.
C15_EmptyDrawIsNoOp ==
    (last.op = "Draw" /\ last.pre_count = 0) =>
        /\ last.gfx.calls = << >>
        /\ last.gfx.create = "none"
        /\ vc_prog = last.pre_prog
        /\ vc_vbo = last.pre_vbo
        /\ gl = last.pre_gl

\* C15 happens: a draw before VirtualControls_Init, in a pipeline state the
\* host had set, with no program and no buffer made.
C15_Witness ==
    /\ last.op = "Draw"
    /\ last.pre_count = 0
    /\ button_count = 0
    /\ gl.blend /\ gl.depth_test
    /\ vc_prog = 0 /\ vc_vbo = 0

\* ------------------------------------------------------------------ frames

\* The rectangle, key and id of button b.
Placed(b) == <<b.x, b.y, b.w, b.h, b.key, b.id>>

\* C14: a resize pushes no event and leaves the button count, every button
\* (pressed flag, rectangle, key, id) and the renderer as they were: only the
\* stored window size is new.  A draw and a shutdown leave the window size,
\* the count and every button as they were and push no event.  No call other
\* than VirtualControls_Init (finger and mouse events, resize, draw,
\* shutdown) changes the count or a button's rectangle, key or id.
C14_ResizeFrame ==
    /\ last.op = "Resize" =>
           /\ last.emitted = << >>
           /\ button_count = last.pre_count
           /\ buttons = last.pre
           /\ <<vc_prog, vc_vbo, gl>> = <<last.pre_prog, last.pre_vbo, last.pre_gl>>
    /\ last.op \in { "Draw", "Shutdown" } =>
           /\ last.emitted = << >>
           /\ button_count = last.pre_count
           /\ buttons = last.pre
           /\ <<window_w, window_h>> = <<last.pre_w, last.pre_h>>
    /\ last.op \in { "Resize", "Draw", "Shutdown", "FingerDown", "FingerUp",
                     "FingerMotion", "MouseDown", "MouseUp" } =>
           /\ button_count = last.pre_count
           /\ \A i \in 0 .. button_count - 1 : Placed(buttons[i]) = Placed(last.pre[i])

\* C14 happens: the window was resized from 800x600 to 400x300 with "left" and
\* "action" pressed, and both stayed pressed.
C14_Witness ==
    /\ last.op = "Resize"
    /\ <<last.pre_w, last.pre_h>> = <<800, 600>>
    /\ <<window_w, window_h>> = <<400, 300>>
    /\ PressedSet(last.pre, last.pre_count) = {0, 4}
    /\ PressedSet(buttons, button_count) = {0, 4}

\* ------------------------------------------------------------ legacy path

\* What the SDL_FINGERDOWN loop makes of the state before the last call at the
\* last call's pixel position divided by the window size stored before it.
FingerDownAtPixel ==
    PressLoop(0, last.pre_count, last.pre, << >>,
              <<last.nx[1], last.pre_w>>, <<last.ny[1], last.pre_h>>)

\* C16: a mouse press at pixel (px, py) leaves the buttons a finger-down at
\* (px / W, py / H) would leave and pushes the events it would push, W x H the
\* window size stored when the press arrives, the size of the last resize
\* included; so the pixel (340, 240) presses the released "action" button in
\* a 400x300 window and no button in an 800x600 window.
C16_MouseDownNormalizes ==
    last.op = "MouseDown" =>
        /\ buttons = FingerDownAtPixel.buttons
        /\ last.emitted = FingerDownAtPixel.out
        /\ (last.nx[1] = 340 /\ last.ny[1] = 240 /\ last.pre_count = 5 /\ last.pre[4].pressed = 0) =>
               /\ <<last.pre_w, last.pre_h>> = <<400, 300>> =>
                      last.emitted = << KeyDown("SDLK_RETURN") >>
               /\ <<last.pre_w, last.pre_h>> = <<800, 600>> =>
                      last.emitted = << >>

\* C16 happens: a mouse press at pixel (340, 240) in a 400x300 window pressed
\* the "action" button.
C16_Witness ==
    /\ last.op = "MouseDown"
    /\ last.nx[1] = 340 /\ last.ny[1] = 240
    /\ <<last.pre_w, last.pre_h>> = <<400, 300>>
    /\ last.pre_count = 5
    /\ last.pre[4].pressed = 0
    /\ buttons[4].pressed = 1
    /\ last.emitted = << KeyDown("SDLK_RETURN") >>

\* ---------------------------------------------------------------- ordering

\* The calls that run a loop over the buttons.
PointerOps == { "FingerDown", "FingerUp", "FingerMotion", "MouseDown", "MouseUp" }

\* The button, among those registered before the last call, that carries key.
ButtonOf(key) == CHOOSE i \in Before : last.pre[i].key = key

\* C17 as claimed: at every SDL_PushEvent of a pointer event the buttons
\* already have the pressed values the event leaves them with: no button the
\* event has still to change holds its old value.
C17_AllTransitionsBeforePush ==
    last.op \in PointerOps =>
        \A k \in DOMAIN last.at_push :
            last.at_push[k] = PressedSet(buttons, button_count)

\* C17, amended: a pointer event pushes one event per button it changes; at
\* the SDL_PushEvent of a button's key event that button already has its new
\* pressed value (pressed for a key-down, released for a key-up) and the
\* buttons changed before it have theirs; at the last push, and so when the
\* handler returns, every button has its final value.  A button that the
\* loop reaches later keeps its old value until its own turn.
C17_OwnTransitionBeforePush ==
    last.op \in PointerOps =>
        /\ Len(last.at_push) = Len(last.emitted)
        /\ \A k \in DOMAIN last.emitted :
               LET b == ButtonOf(last.emitted[k].sym)
               IN  /\ last.emitted[k].type = "SDL_KEYDOWN" => b \in last.at_push[k]
                   /\ last.emitted[k].type = "SDL_KEYUP" => b \notin last.at_push[k]
                   /\ \A j \in 1 .. k :
                          ButtonOf(last.emitted[j].sym) \in last.at_push[k]
                              <=> buttons[ButtonOf(last.emitted[j].sym)].pressed # 0
        /\ last.emitted # << >> =>
               last.at_push[Len(last.at_push)] = PressedSet(buttons, button_count)

\* C17 happens: a mouse release with "left" and "action" pressed pushed the
\* key-up of "left" while "action" was still pressed, then the key-up of
\* "action".
C17_Witness ==
    /\ last.op = "MouseUp"
    /\ PressedSet(last.pre, last.pre_count) = {0, 4}
    /\ last.emitted = << KeyUp("SDLK_LEFT"), KeyUp("SDLK_RETURN") >>
    /\ last.at_push = << {4}, {} >>
    /\ PressedSet(buttons, button_count) = {}

\* ------------------------------------------------------- key event history

\* C18: after a single VirtualControls_Init, over every sequence of finger
\* and mouse events, resizes, draws and shutdowns, each key has had as many
\* key-downs as key-ups or one key-down more, the difference is the pressed
\* flag of the key's button, and no call pushes two events for one key: the
\* events of a key alternate key-down, key-up, starting with a key-down, and
\* a button is pressed exactly when the last event of its key is a key-down.
C18_KeyEventsAlternate ==
    /\ \A key \in Keys : unmatched[key] \in { 0, 1 }
    /\ \A i \in 0 .. button_count - 1 : unmatched[buttons[i].key] = buttons[i].pressed
    /\ button_count = 0 => \A key \in Keys : unmatched[key] = 0
    /\ \A key \in Keys :
           Pushed(last.emitted, "SDL_KEYDOWN", key)
               + Pushed(last.emitted, "SDL_KEYUP", key) <= 1

\* C18 happens: with a program made by a draw and "action" held, a finger
\* lifted from "left" pushed its key-up: the key-downs of SDLK_LEFT are
\* matched, one of SDLK_RETURN is open.
C18_Witness ==
    /\ recording
    /\ vc_prog # 0
    /\ last.op = "FingerUp"
    /\ last.emitted = << KeyUp("SDLK_LEFT") >>
    /\ PressedSet(buttons, button_count) = {4}
    /\ unmatched["SDLK_LEFT"] = 0
    /\ unmatched["SDLK_RETURN"] = 1

\* ---------------------------------------------------------------- layout

\* Whether the closed rectangles of buttons a and b have no point in common.
Separated(a, b) ==
    \/ a.x + a.w < b.x
    \/ b.x + b.w < a.x
    \/ a.y + a.h < b.y
    \/ b.y + b.h < a.y

\* C19: the rectangles of the layout are pairwise disjoint under the hit
\* test (closed rectangles with no common point), and a finger-down or mouse
\* press at any position finds at most one button under it, pushes at most
\* one key-down and presses at most one button.
C19_LayoutDisjoint ==
    /\ \A i, j \in 0 .. button_count - 1 :
           i # j => Separated(buttons[i], buttons[j])
    /\ last.op \in { "FingerDown", "MouseDown" } =>
           /\ Cardinality(HitBefore) <= 1
           /\ Len(last.emitted) <= 1
           /\ \A k \in DOMAIN last.emitted : last.emitted[k].type = "SDL_KEYDOWN"
           /\ Cardinality(PressedSet(buttons, button_count)
                              \ PressedSet(last.pre, last.pre_count)) <= 1

\* C19 happens: a finger-down on the bottom edge of "up" (0.30, 0.73), 0.02
\* above the top edge of "down", pressed "up" alone.
C19_Witness ==
    /\ last.op = "FingerDown"
    /\ last.nx = <<30, Unit>>
    /\ last.ny = <<73, Unit>>
    /\ HitBefore = {2}
    /\ last.emitted = << KeyDown("SDLK_UP") >>
    /\ PressedSet(buttons, button_count) = {2}

\* ------------------------------------------------------------ second init

\* Whether the button that carries key is pressed (1) or not (0).
Held(key) ==
    IF \E i \in 0 .. button_count - 1 : buttons[i].key = key /\ buttons[i].pressed # 0
    THEN 1 ELSE 0

\* The key-downs of key pushed so far that lack a key-up and that no pressed
\* flag stands for: the key-ups the host is owed.
Owed(key) == unmatched[key] - Held(key)

\* C20 (a step that leaves `last` an "Init" record it was not before is a
\* VirtualControls_Init call): a VirtualControls_Init called with buttons pressed leaves every
\* button released, pushes no event and leaves the queue as it was, so that
\* the host is owed one more key-up for the key of each such button; and no
\* step of any operation ever lowers what the host is owed for a key: the
\* key-up that the init dropped is not pushed by any later event.
C20_DroppedKeyUpNeverComes ==
    [][ /\ \A key \in Keys : Owed(key)' >= Owed(key)
        /\ (last'.op = "Init" /\ last' # last) =>
               /\ last'.emitted = << >>
               /\ queue' = queue
               /\ PressedSet(buttons', button_count') = {}
               /\ \A i \in PressedSet(buttons, button_count) :
                      /\ Owed(buttons[i].key)' = Owed(buttons[i].key) + 1
                      /\ unmatched'[buttons[i].key] >= 1
      ]_vars

\* C20 happens: after an init that was called with "left" pressed, "left"
\* was pressed again and released by a finger-up that pushed a key-up, and
\* one key-down of SDLK_LEFT is still without its key-up.
C20_Witness ==
    /\ recording
    /\ last.op = "FingerUp"
    /\ last.emitted = << KeyUp("SDLK_LEFT") >>
    /\ PressedSet(buttons, button_count) = {}
    /\ unmatched["SDLK_LEFT"] = 1

====
